---- MODULE Spec2Model ----
(***************************************************************************)
(* Model of the ALITECS ADR plugin (v3/alitecs-adr/main.go): the Handle    *)
(* decision function and its helpers.                                      *)
(*                                                                         *)
(* Numbers.  SNR values (float32 in the source) are kept as integers in    *)
(* units of 1/SNRScale dB, a power of two; every SNR of the model is a     *)
(* small multiple of it, for which the float32 subtractions of Handle are  *)
(* exact and int(snrMargin / 3) equals the truncated integer quotient of   *)
(* the scaled margin by 3 * SNRScale.  Frame counters and the lost         *)
(* packet counter are uint32 in the source; the counter is kept as two     *)
(* 16-bit limbs so that the arithmetic modulo 2^32 is the source's.  The   *)
(* packet loss rate (float32) is kept as the pair (lostPackets, length) it *)
(* is computed from, and compared with the band thresholds exactly.        *)
(***************************************************************************)
EXTENDS Integers, Sequences, FiniteSets, TLC

VARIABLES
    history,   \* the uplink history the caller has accumulated (oldest first)
    req,       \* the request of the last Handle call
    resp,      \* the response of the last Handle call
    prev,      \* request and response of the call before the last one
    pc,        \* "build" | "done" | "fed"; "step" and "loss" in SpecStep and SpecLoss
    step,      \* a call of getIdealTxPowerIndexAndDR: its arguments and result
    walk       \* the walk of getPacketLossPercentage over a history

vars == <<history, req, resp, prev, pc, step, walk>>

----------------------------------------------------------------------------
(* Bounds of the model *)

MaxHist == 21          \* longest uplink history
BoundDR == 2           \* the request's MaxDR
BoundTx == 2           \* the request's MaxTxPowerIndex
MaxStep == 4           \* largest |nStep| given to getIdealTxPowerIndexAndDR alone
MaxStepDR == 5         \* largest maxDR given to getIdealTxPowerIndexAndDR alone
MaxStepTx == 3         \* largest maxTxPowerIndex given to it alone
MaxGap == 3            \* largest frame counter delta of the walk

\* SNR values carry two binary fractional digits: the unit is 1/4 dB
SNRScale == 2 ^ 2

\* uint32 values are two limbs of 16 bits
Limb == 2 ^ 16

Min(a, b) == IF a < b THEN a ELSE b
Max(a, b) == IF a > b THEN a ELSE b

----------------------------------------------------------------------------
(* uint32 arithmetic (lostPackets, main.go:152,161) *)

U32Zero == [hi |-> 0, lo |-> 0]

\* x + d modulo 2^32, for a uint32 x and a small integer d (|d| < 2^16)
U32Add(x, d) ==
    LET lo2 == x.lo + d
        carry == lo2 \div Limb
    IN  [hi |-> (x.hi + carry) % Limb, lo |-> lo2 % Limb]

\* uint32 of a small natural
U32Of(n) == [hi |-> 0, lo |-> n]

----------------------------------------------------------------------------
(* The helpers of the handler *)

requiredHistoryCount == 20

\* A table whose first row lowers the count under low loss
pktLossRateTableZero ==
    << <<0, 1, 2>>,
       <<1, 2, 3>>,
       <<2, 3, 3>>,
       <<3, 3, 3>> >>

pktLossRateTable ==
    << <<1, 1, 2>>,
       <<1, 2, 3>>,
       <<2, 3, 3>>,
       <<3, 3, 3>> >>

RECURSIVE MaxSNROver(_, _)
MaxSNROver(h, snrM) ==
    IF h = << >> THEN snrM
    ELSE MaxSNROver(Tail(h), IF Head(h).MaxSNR > snrM THEN Head(h).MaxSNR ELSE snrM)

\* A sentinel of -990 dB
getMaxSNRHigher(r) == MaxSNROver(r.UplinkHistory, (-990) * SNRScale)

getMaxSNR(r) == MaxSNROver(r.UplinkHistory, (-999) * SNRScale)

RECURSIVE CountEqualTx(_, _)
CountEqualTx(h, tx) ==
    IF h = << >> THEN 0
    ELSE (IF tx = Head(h).TXPowerIndex THEN 1 ELSE 0) + CountEqualTx(Tail(h), tx)

getHistoryCount(r) == CountEqualTx(r.UplinkHistory, r.TxPowerIndex)

\* The delta itself counted as lost
AddLostDelta(lostPackets, fCnt, previousFCnt) ==
    U32Add(lostPackets, fCnt - previousFCnt)

\* lostPackets += m.FCnt - previousFCnt - 1   (uint32)
AddLost(lostPackets, fCnt, previousFCnt) ==
    U32Add(lostPackets, fCnt - previousFCnt - 1)

RECURSIVE LostOver(_, _, _)
LostOver(h, previousFCnt, lostPackets) ==
    IF h = << >> THEN lostPackets
    ELSE LostOver(Tail(h), Head(h).FCnt,
                  AddLost(lostPackets, Head(h).FCnt, previousFCnt))

\* The rate float32(lostPackets) / float32(len) * 100 as the pair it is made of.
getPacketLossPercentage(r) ==
    IF Len(r.UplinkHistory) < requiredHistoryCount
    THEN [lost |-> U32Zero, len |-> 1]
    ELSE [lost |-> LostOver(Tail(r.UplinkHistory), Head(r.UplinkHistory).FCnt, U32Zero),
          len  |-> Len(r.UplinkHistory)]

\* pktLossRate <= t
RateBelowOrEqual(rate, t) == rate.lost.hi = 0 /\ rate.lost.lo * 100 <= t * rate.len

\* pktLossRate < t
RateBelow(rate, t) == rate.lost.hi = 0 /\ rate.lost.lo * 100 < t * rate.len

getNbTrans(currentNbTrans, pktLossRate) ==
    LET c1 == IF currentNbTrans < 1 THEN 1 ELSE currentNbTrans
        c  == IF c1 > 3 THEN 3 ELSE c1
    IN  IF RateBelow(pktLossRate, 5) THEN pktLossRateTable[1][c]
        ELSE IF RateBelow(pktLossRate, 10) THEN pktLossRateTable[2][c]
        ELSE IF RateBelow(pktLossRate, 30) THEN pktLossRateTable[3][c]
        ELSE pktLossRateTable[4][c]

\* The power index preferred over the data rate for a positive nStep
IdealStepPowerFirst(nStep, txPowerIndex, dr, maxTxPowerIndex, maxDR) ==
    IF nStep > 0
    THEN IF txPowerIndex < maxTxPowerIndex
         THEN <<nStep - 1, txPowerIndex + 1, dr>>
         ELSE IF dr < maxDR
         THEN <<nStep - 1, txPowerIndex, dr + 1>>
         ELSE <<nStep - 1, txPowerIndex, dr>>
    ELSE IF txPowerIndex > 0
         THEN <<nStep + 1, txPowerIndex - 1, dr>>
         ELSE IF txPowerIndex = 0 /\ dr > 0
         THEN <<nStep + 1, txPowerIndex, dr - 1>>
         ELSE <<nStep + 1, txPowerIndex, dr>>

\* One call of getIdealTxPowerIndexAndDR with nStep # 0: the arguments
\* <<nStep, txPowerIndex, dr>> of the recursive call it ends with
IdealStep(nStep, txPowerIndex, dr, maxTxPowerIndex, maxDR) ==
    IF nStep > 0
    THEN IF dr < maxDR
         THEN <<nStep - 1, txPowerIndex, dr + 1>>
         ELSE IF txPowerIndex < maxTxPowerIndex
         THEN <<nStep - 1, txPowerIndex + 1, dr>>
         ELSE <<nStep - 1, txPowerIndex, dr>>
    ELSE IF txPowerIndex > 0
         THEN <<nStep + 1, txPowerIndex - 1, dr>>
         ELSE IF txPowerIndex = 0 /\ dr > 0
         THEN <<nStep + 1, txPowerIndex, dr - 1>>
         ELSE <<nStep + 1, txPowerIndex, dr>>

\* Returns <<txPowerIndex, dr>>
RECURSIVE getIdealTxPowerIndexAndDR(_, _, _, _, _)
getIdealTxPowerIndexAndDR(nStep, txPowerIndex, dr, maxTxPowerIndex, maxDR) ==
    IF nStep = 0 THEN <<txPowerIndex, dr>>
    ELSE LET a == IdealStep(nStep, txPowerIndex, dr, maxTxPowerIndex, maxDR)
         IN  getIdealTxPowerIndexAndDR(a[1], a[2], a[3], maxTxPowerIndex, maxDR)

\* snrMargin := snrM - req.RequiredSNRForDR - req.InstallationMargin (scaled)
SnrMargin(r) == getMaxSNR(r) - r.RequiredSNRForDR - r.InstallationMargin

\* The quotient rounded down (math.Floor) instead of truncated
NStepOfFloor(snrMargin) == snrMargin \div (3 * SNRScale)

\* The quotient rounded away from zero
NStepOfAway(snrMargin) ==
    IF snrMargin >= 0 THEN (snrMargin + 3 * SNRScale - 1) \div (3 * SNRScale)
    ELSE -((-snrMargin + 3 * SNRScale - 1) \div (3 * SNRScale))

\* int(snrMargin / 3): Go's float to int conversion truncates toward zero
NStepOf(snrMargin) ==
    IF snrMargin >= 0 THEN snrMargin \div (3 * SNRScale)
    ELSE -((-snrMargin) \div (3 * SNRScale))

NStep(r) == NStepOf(SnrMargin(r))

\* The guard as "fewer than the required number of entries"
GuardReturnsBelow(r) == NStep(r) < 0 /\ getHistoryCount(r) < requiredHistoryCount

\* The nStep < 0 guard of Handle
GuardReturns(r) == NStep(r) < 0 /\ getHistoryCount(r) # requiredHistoryCount

\* No data rate ceiling
ClampedDRNone(r) == r.DR

\* resp.DR after "if req.DR > req.MaxDR"
ClampedDR(r) == IF r.DR > r.MaxDR THEN r.MaxDR ELSE r.DR

\* A default response with the data rate ceiling already applied
DefaultResponseClamped(r) ==
    [DR |-> ClampedDR(r), TxPowerIndex |-> r.TxPowerIndex, NbTrans |-> r.NbTrans]

\* The default response, equal to the current device state
DefaultResponse(r) ==
    [DR |-> r.DR, TxPowerIndex |-> r.TxPowerIndex, NbTrans |-> r.NbTrans]

Handle(r) ==
    IF ~r.ADR
    THEN DefaultResponse(r)
    ELSE LET dr == ClampedDR(r)
             nb == getNbTrans(r.NbTrans, getPacketLossPercentage(r))
         IN  IF GuardReturns(r)
             THEN [DR |-> dr, TxPowerIndex |-> r.TxPowerIndex, NbTrans |-> nb]
             ELSE LET ideal == getIdealTxPowerIndexAndDR(NStep(r), r.TxPowerIndex, dr,
                                                         r.MaxTxPowerIndex, r.MaxDR)
                  IN  [DR |-> ideal[2], TxPowerIndex |-> ideal[1], NbTrans |-> nb]

----------------------------------------------------------------------------
(* The requests given to Handle *)

RegularTx == BoundTx - 1                 \* power index of a regular uplink
RegularSNR == (-5) * SNRScale            \* -5 dB
StrongSNR == SNRScale + 1                \* +1.25 dB at SNRScale = 4
NominalDR == BoundDR - 1

\* An uplink that follows previousFCnt without loss, at the regular power and SNR
Regular(e, previousFCnt) ==
    /\ e.FCnt = previousFCnt + 1
    /\ e.TXPowerIndex = RegularTx
    /\ e.MaxSNR = RegularSNR

LastFCnt(h) == IF h = << >> THEN 0 ELSE h[Len(h)].FCnt

AllRegular(h) ==
    \A i \in 1..Len(h) : Regular(h[i], IF i = 1 THEN 0 ELSE h[i - 1].FCnt)

\* The uplinks that may follow history h
Deltas == {1, 2, 4, 7}
NextUplinks(h) ==
    { [FCnt |-> LastFCnt(h) + d, MaxSNR |-> RegularSNR, TXPowerIndex |-> RegularTx] :
          d \in Deltas }
    \cup { [FCnt |-> LastFCnt(h) + 1, MaxSNR |-> StrongSNR, TXPowerIndex |-> RegularTx],
           [FCnt |-> LastFCnt(h) + 1, MaxSNR |-> RegularSNR, TXPowerIndex |-> 0] }

RequiredSNRs == { (-20) * SNRScale, (-25) * (SNRScale \div 2),
                  (-10) * SNRScale, (-15) * (SNRScale \div 2) }
DefaultInstallationMargin == 10 * SNRScale

Request(adr, dr, tx, nb, rq, im, h) ==
    [ADR |-> adr, DR |-> dr, TxPowerIndex |-> tx, NbTrans |-> nb,
     MaxTxPowerIndex |-> BoundTx, MaxDR |-> BoundDR,
     RequiredSNRForDR |-> rq, InstallationMargin |-> im, UplinkHistory |-> h]

\* Device configurations <<ADR, DR, TxPowerIndex, NbTrans>> of the requests
Configs ==
    ({TRUE} \X (-1..BoundDR + 1) \X (-1..BoundTx + 1) \X {2})
    \cup ({TRUE} \X {NominalDR} \X {RegularTx} \X (0..4))
    \cup ({FALSE} \X {-1, NominalDR, BoundDR + 1} \X {-1, RegularTx, BoundTx + 1} \X {0, 2, 4})

NoRequest == Request(FALSE, 0, 0, 0, 0, 0, << >>)
NoResponse == [DR |-> 0, TxPowerIndex |-> 0, NbTrans |-> 0]
NoCall == [req |-> NoRequest, resp |-> NoResponse]
NoStep == [nStep |-> 0, txPowerIndex |-> 0, dr |-> 0, maxTxPowerIndex |-> 0, maxDR |-> 0,
           result |-> <<0, 0>>, called |-> FALSE]
NoRate == [lost |-> U32Zero, len |-> 1]
NoWalk == [pc |-> "idle", len |-> 0, i |-> 0, previousFCnt |-> 0, firstFCnt |-> 0,
           lostPackets |-> U32Zero, minDelta |-> 0, rate |-> NoRate]

----------------------------------------------------------------------------
(* The handler under the requests of a host *)

Init ==
    /\ history = << >>
    /\ req = NoRequest
    /\ resp = NoResponse
    /\ prev = NoCall
    /\ pc = "build"
    /\ step = NoStep
    /\ walk = NoWalk

\* The host records one more uplink
AppendUplink ==
    /\ pc = "build"
    /\ Len(history) < MaxHist
    /\ \E e \in NextUplinks(history) :
          /\ Regular(e, LastFCnt(history)) \/ AllRegular(history)
          /\ history' = Append(history, e)
    /\ UNCHANGED <<req, resp, prev, pc, step, walk>>

\* The host calls Handle with a required SNR of rqs and an installation margin of ims
CallHandleWith(rqs, ims) ==
    /\ pc = "build"
    /\ \E c \in Configs, rq \in rqs, im \in ims :
          /\ req' = Request(c[1], c[2], c[3], c[4], rq, im, history)
          /\ resp' = Handle(req')
    /\ pc' = "done"
    /\ UNCHANGED <<history, prev, step, walk>>

CallHandle == CallHandleWith(RequiredSNRs, {DefaultInstallationMargin})

\* The host applies the response to the device and calls Handle again with the same
\* history and margins
Feedback ==
    /\ pc = "done"
    /\ prev' = [req |-> req, resp |-> resp]
    /\ req' = [req EXCEPT !.DR = resp.DR, !.TxPowerIndex = resp.TxPowerIndex,
                          !.NbTrans = resp.NbTrans]
    /\ resp' = Handle(req')
    /\ pc' = "fed"
    /\ UNCHANGED <<history, step, walk>>

Next == AppendUplink \/ CallHandle \/ Feedback

Spec == Init /\ [][Next]_vars

----------------------------------------------------------------------------
(* The handler on requests without history, for any required SNR and margin *)

AnyRequiredSNRs ==
    { (-20) * SNRScale, (-999) * SNRScale, (-1002) * SNRScale + 1, (-1002) * SNRScale,
      (-1005) * SNRScale, (-1012) * SNRScale + 1, (-1012) * SNRScale,
      (-1030) * SNRScale }
AnyInstallationMargins == { 0, 10 * SNRScale, (-10) * SNRScale }

CallHandleEmpty == CallHandleWith(AnyRequiredSNRs, AnyInstallationMargins)

NextEmpty == CallHandleEmpty \/ Feedback

SpecEmpty == Init /\ [][NextEmpty]_vars

----------------------------------------------------------------------------
(* getIdealTxPowerIndexAndDR alone *)

StepCalls ==
    { [nStep |-> n, txPowerIndex |-> tx, dr |-> dr, maxTxPowerIndex |-> mtx, maxDR |-> mdr,
       result |-> <<0, 0>>, called |-> FALSE] :
          n \in (-MaxStep)..MaxStep, tx \in (-1)..(MaxStepTx + 1), dr \in (-1)..(MaxStepDR + 1),
          mtx \in 0..MaxStepTx, mdr \in 0..MaxStepDR }

InitStep ==
    /\ history = << >>
    /\ req = NoRequest
    /\ resp = NoResponse
    /\ prev = NoCall
    /\ pc = "step"
    /\ step \in StepCalls
    /\ walk = NoWalk

CallStep ==
    /\ pc = "step"
    /\ ~step.called
    /\ step' = [step EXCEPT
                   !.result = getIdealTxPowerIndexAndDR(step.nStep, step.txPowerIndex, step.dr,
                                                        step.maxTxPowerIndex, step.maxDR),
                   !.called = TRUE]
    /\ UNCHANGED <<history, req, resp, prev, pc, walk>>

NextStep == CallStep

SpecStep == InitStep /\ [][NextStep]_vars

----------------------------------------------------------------------------
(* getPacketLossPercentage as a walk over the frame counters of a history of   *)
(* walk.len uplinks; the counters are read one by one.  walk.firstFCnt and     *)
(* walk.minDelta record the first counter and the smallest delta read so far.  *)

FirstFCnts == {0, 2}

InitLoss ==
    /\ history = << >>
    /\ req = NoRequest
    /\ resp = NoResponse
    /\ prev = NoCall
    /\ pc = "loss"
    /\ step = NoStep
    /\ walk \in { [NoWalk EXCEPT !.pc = "start", !.len = n, !.minDelta = MaxGap] :
                     n \in 0..MaxHist }

\* len(req.UplinkHistory) < requiredHistoryCount: return 0
LossTooShort ==
    /\ walk.pc = "start"
    /\ walk.len < requiredHistoryCount
    /\ walk' = [walk EXCEPT !.pc = "returned", !.rate = [lost |-> U32Zero, len |-> 1]]
    /\ UNCHANGED <<history, req, resp, prev, pc, step>>

\* i == 0: previousFCnt = m.FCnt
LossFirst ==
    /\ walk.pc = "start"
    /\ walk.len >= requiredHistoryCount
    /\ \E f \in FirstFCnts :
          walk' = [walk EXCEPT !.pc = "loop", !.i = 1, !.previousFCnt = f, !.firstFCnt = f]
    /\ UNCHANGED <<history, req, resp, prev, pc, step>>

\* i > 0: lostPackets += m.FCnt - previousFCnt - 1; previousFCnt = m.FCnt
LossNext ==
    /\ walk.pc = "loop"
    /\ walk.i < walk.len
    /\ \E d \in (-1)..MaxGap :
          LET f == walk.previousFCnt + d
          IN  /\ f >= 0
              /\ walk' = [walk EXCEPT
                             !.i = walk.i + 1,
                             !.lostPackets = AddLost(walk.lostPackets, f, walk.previousFCnt),
                             !.previousFCnt = f,
                             !.minDelta = Min(walk.minDelta, d)]
    /\ UNCHANGED <<history, req, resp, prev, pc, step>>

\* return float32(lostPackets) / float32(len(req.UplinkHistory)) * 100
LossReturn ==
    /\ walk.pc = "loop"
    /\ walk.i = walk.len
    /\ walk' = [walk EXCEPT !.pc = "returned",
                            !.rate = [lost |-> walk.lostPackets, len |-> walk.len]]
    /\ UNCHANGED <<history, req, resp, prev, pc, step>>

NextLoss == LossTooShort \/ LossFirst \/ LossNext \/ LossReturn

SpecLoss == InitLoss /\ [][NextLoss]_vars

----------------------------------------------------------------------------
(* Reference definitions the properties are stated with *)

Called == pc \in {"done", "fed"}

\* The largest MaxSNR of history h, -999 dB when h is empty
RefMaxSNR(h) ==
    IF h = << >> THEN (-999) * SNRScale
    ELSE CHOOSE m \in {h[i].MaxSNR : i \in 1..Len(h)} :
             \A i \in 1..Len(h) : h[i].MaxSNR <= m

RefMargin(r) == RefMaxSNR(r.UplinkHistory) - r.RequiredSNRForDR - r.InstallationMargin

\* Number of entries of r's history recorded at r's current power index
RefMatching(r) ==
    Cardinality({i \in 1..Len(r.UplinkHistory) :
                     r.UplinkHistory[i].TXPowerIndex = r.TxPowerIndex})

\* Frames missing between the first and the last counter of a history of strictly
\* increasing counters
RefMissing(h) == h[Len(h)].FCnt - h[1].FCnt - (Len(h) - 1)

\* Loss band 1..4 (< 5 %, < 10 %, < 30 %, >= 30 %) of `missing` lost frames in a
\* history of n uplinks
RefBand(missing, n) ==
    IF n < 20 THEN 1
    ELSE IF missing * 100 < 5 * n THEN 1
    ELSE IF missing * 100 < 10 * n THEN 2
    ELSE IF missing * 100 < 30 * n THEN 3
    ELSE 4

RefClampNb(nb) == IF nb < 1 THEN 1 ELSE IF nb > 3 THEN 3 ELSE nb

RefTable(band, c) ==
    CASE band = 1 -> <<1, 1, 2>>[c]
      [] band = 2 -> <<1, 2, 3>>[c]
      [] band = 3 -> <<2, 3, 3>>[c]
      [] band = 4 -> <<3, 3, 3>>[c]

RefNbTrans(r) ==
    RefTable(RefBand(IF Len(r.UplinkHistory) < 20 THEN 0 ELSE RefMissing(r.UplinkHistory),
                     Len(r.UplinkHistory)),
             RefClampNb(r.NbTrans))

RefClampDR(r) == Min(r.DR, r.MaxDR)

----------------------------------------------------------------------------
(* C1: with ADR disabled Handle returns the current data rate, power index and   *)
(* nbTrans exactly as given, also when they are out of range.                    *)
C1_Passthrough ==
    (Called /\ ~req.ADR) =>
        /\ resp.DR = req.DR
        /\ resp.TxPowerIndex = req.TxPowerIndex
        /\ resp.NbTrans = req.NbTrans

C1_Witness ==
    /\ pc = "done" /\ ~req.ADR
    /\ req.DR > req.MaxDR /\ req.TxPowerIndex < 0 /\ req.NbTrans = 0
    /\ Len(req.UplinkHistory) = MaxHist
    /\ resp = [DR |-> req.DR, TxPowerIndex |-> req.TxPowerIndex, NbTrans |-> 0]

(* C2 as stated: for every request the result data rate is at most maxDataRate   *)
(* and the result power index is within 0..maxTxPowerIndex.                      *)
C2_RangeAnyInput ==
    Called =>
        /\ resp.DR <= req.MaxDR
        /\ resp.TxPowerIndex <= req.MaxTxPowerIndex
        /\ resp.TxPowerIndex >= 0

(* C2 amended: the result data rate is at most maxDataRate when ADR is enabled   *)
(* or the current data rate is; the result power index is within                 *)
(* 0..maxTxPowerIndex when the current power index is.                           *)
C2_Range ==
    Called =>
        /\ (req.ADR \/ req.DR <= req.MaxDR) => resp.DR <= req.MaxDR
        /\ (req.TxPowerIndex >= 0 /\ req.TxPowerIndex <= req.MaxTxPowerIndex) =>
               (resp.TxPowerIndex >= 0 /\ resp.TxPowerIndex <= req.MaxTxPowerIndex)

C2_Witness ==
    /\ pc = "done" /\ req.ADR
    /\ req.DR > req.MaxDR
    /\ req.TxPowerIndex = req.MaxTxPowerIndex - 1
    /\ RefMargin(req) >= 6 * SNRScale
    /\ resp.DR = req.MaxDR
    /\ resp.TxPowerIndex = req.MaxTxPowerIndex

(* C3 as stated: the result nbTrans is 1, 2 or 3 for every request.              *)
C3_NbTransAnyInput == Called => resp.NbTrans \in 1..3

(* C3 amended: the result nbTrans is 1, 2 or 3 when ADR is enabled, for any      *)
(* current nbTrans, and when ADR is disabled and the current nbTrans is.         *)
C3_NbTrans ==
    (Called /\ (req.ADR \/ req.NbTrans \in 1..3)) => resp.NbTrans \in 1..3

C3_Witness ==
    /\ pc = "done" /\ req.ADR
    /\ req.NbTrans = 0
    /\ Len(req.UplinkHistory) >= 20
    /\ resp.NbTrans = 1

C5_Idempotent ==
    (/\ pc = "fed"
     /\ prev.req.ADR
     /\ RefMargin(prev.req) > (-3) * SNRScale
     /\ RefMargin(prev.req) < 3 * SNRScale
     /\ prev.resp.NbTrans = prev.req.NbTrans) =>
        resp = prev.resp

\* the first call clamped the data rate
C5_Witness ==
    /\ pc = "fed"
    /\ prev.req.ADR
    /\ RefMargin(prev.req) > (-3) * SNRScale
    /\ RefMargin(prev.req) < 3 * SNRScale
    /\ prev.resp.NbTrans = prev.req.NbTrans
    /\ prev.req.DR > prev.req.MaxDR
    /\ prev.resp.DR = prev.req.MaxDR
    /\ resp = prev.resp

(* C6: getIdealTxPowerIndexAndDR on 0 <= dr <= maxDR, 0 <= txPowerIndex <=        *)
(* maxTxPowerIndex equals its closed form: a positive nStep raises the data rate  *)
(* first and the power index with what is left once the data rate is maxDR; a     *)
(* negative nStep lowers the power index first and the data rate with what is     *)
(* left once the index is 0; nStep = 0 changes nothing.                           *)
C6_ClosedForm ==
    (/\ pc = "step" /\ step.called
     /\ step.dr >= 0 /\ step.dr <= step.maxDR
     /\ step.txPowerIndex >= 0 /\ step.txPowerIndex <= step.maxTxPowerIndex) =>
        LET n  == step.nStep
            k  == -step.nStep
            tx == step.txPowerIndex
            dr == step.dr
        IN  /\ n > 0 =>
                 /\ step.result[2] = Min(step.maxDR, dr + n)
                 /\ step.result[1] =
                        Min(step.maxTxPowerIndex, tx + Max(0, n - (step.maxDR - dr)))
            /\ n < 0 =>
                 /\ step.result[1] = Max(0, tx - k)
                 /\ step.result[2] = Max(0, dr - Max(0, k - tx))
            /\ n = 0 => step.result = <<tx, dr>>
            /\ (n = 2 /\ dr = 3 /\ step.maxDR = 5 /\ tx = 1 /\ step.maxTxPowerIndex = 3) =>
                   step.result = <<1, 5>>
            /\ (n = -1 /\ tx = 2) => step.result = <<1, dr>>

\* a positive nStep that exhausts the data rate and goes on with the power index
C6_Witness ==
    /\ pc = "step" /\ step.called
    /\ step.nStep = 3 /\ step.dr = 3 /\ step.maxDR = 5
    /\ step.txPowerIndex = 1 /\ step.maxTxPowerIndex = 3
    /\ step.result = <<2, 5>>

(* C7: with ADR enabled, whether or not the guard returns early, the result       *)
(* nbTrans is the table entry of the loss band (loss 0 under 20 history entries)  *)
(* and of the current nbTrans clamped into 1..3; the table does not decrease in   *)
(* the band nor in the current count, and the <30 % band with 2 gives 3.          *)
C7_NbTransTable ==
    /\ (Called /\ req.ADR) => resp.NbTrans = RefNbTrans(req)
    /\ \A b1 \in 1..4, b2 \in 1..4, c1 \in 1..3, c2 \in 1..3 :
           (b1 <= b2 /\ c1 <= c2) => pktLossRateTable[b1][c1] <= pktLossRateTable[b2][c2]
    /\ pktLossRateTable[3][2] = 3

\* the guard returned early and nbTrans was raised from 2 to 3 in the < 30 % band
C7_Witness ==
    /\ pc = "done" /\ req.ADR
    /\ req.NbTrans = 2
    /\ Len(req.UplinkHistory) = 20
    /\ RefMissing(req.UplinkHistory) = 3
    /\ RefMargin(req) <= (-3) * SNRScale /\ RefMatching(req) # 20
    /\ resp.NbTrans = 3

(* C9: the step count is the margin divided by 3 dB truncated toward zero.  With  *)
(* ADR enabled and -3 dB < margin < 3 dB the power index is the current one and   *)
(* the data rate the clamped current one whatever the history's power indices; a  *)
(* negative step is taken from a margin of -3 dB on.                              *)
C9_Truncation ==
    (Called /\ req.ADR) =>
        LET m == RefMargin(req)
            n == NStep(req)
        IN  /\ m >= 0 => (n * 3 * SNRScale <= m /\ m < (n + 1) * 3 * SNRScale)
            /\ m < 0 => ((n - 1) * 3 * SNRScale < m /\ m <= n * 3 * SNRScale)
            /\ (m > (-3) * SNRScale /\ m < 3 * SNRScale) =>
                   /\ resp.TxPowerIndex = req.TxPowerIndex
                   /\ resp.DR = RefClampDR(req)
            /\ (m <= (-3) * SNRScale /\ RefMatching(req) = 20 /\ req.TxPowerIndex > 0) =>
                   resp.TxPowerIndex < req.TxPowerIndex

\* a negative margin above -3 dB with 20 entries at the current power index
C9_Witness ==
    /\ pc = "done" /\ req.ADR
    /\ RefMargin(req) < 0 /\ RefMargin(req) > (-3) * SNRScale
    /\ RefMatching(req) = 20
    /\ req.TxPowerIndex > 0
    /\ resp.TxPowerIndex = req.TxPowerIndex

(* C10 as stated: with ADR enabled and an empty history, for every required SNR   *)
(* and installation margin, the power index is the current one, the data rate the *)
(* clamped current one and nbTrans the first table row's value.                   *)
C10_EmptyAnyMargin ==
    (Called /\ req.ADR /\ req.UplinkHistory = << >>) =>
        /\ resp.TxPowerIndex = req.TxPowerIndex
        /\ resp.DR = RefClampDR(req)
        /\ resp.NbTrans = RefTable(1, RefClampNb(req.NbTrans))

(* C10 amended: the same, for the required SNR and installation margin whose sum  *)
(* is above -1002 dB, that is when -999 dB less both is a margin under 3 dB.      *)
C10_Empty ==
    (/\ Called /\ req.ADR /\ req.UplinkHistory = << >>
     /\ req.RequiredSNRForDR + req.InstallationMargin > (-1002) * SNRScale) =>
        /\ resp.TxPowerIndex = req.TxPowerIndex
        /\ resp.DR = RefClampDR(req)
        /\ resp.NbTrans = RefTable(1, RefClampNb(req.NbTrans))

\* a positive margin under 3 dB on the sentinel
C10_Witness ==
    /\ pc = "done" /\ req.ADR /\ req.UplinkHistory = << >>
    /\ req.RequiredSNRForDR + req.InstallationMargin < (-999) * SNRScale
    /\ req.RequiredSNRForDR + req.InstallationMargin > (-1002) * SNRScale
    /\ req.DR < req.MaxDR /\ req.DR >= 0
    /\ resp.DR = req.DR
    /\ resp.TxPowerIndex = req.TxPowerIndex

----------------------------------------------------------------------------
(* The lost packet counter of the walk *)

\* Sum of (delta - 1) over the pairs read so far, as an integer
RefLostSoFar == walk.previousFCnt - walk.firstFCnt - (walk.i - 1)

Walking == walk.pc \in {"loop", "returned"} /\ walk.len >= requiredHistoryCount

LostIsExact ==
    /\ RefLostSoFar >= 0
    /\ walk.lostPackets = U32Of(RefLostSoFar)
    /\ walk.pc = "returned" =>
           /\ walk.rate = [lost |-> U32Of(RefLostSoFar), len |-> walk.len]
           /\ \A c \in 1..3 :
                  getNbTrans(c, walk.rate) = RefTable(RefBand(RefLostSoFar, walk.len), c)

(* C8 as stated: over a history of at least 20 uplinks whose frame counters never *)
(* decrease (repeats allowed) the lost packet counter is never below 0 and never  *)
(* wraps at any point of the walk, and the rate is that of the missing frames.    *)
C8_LostNonDecreasing == (Walking /\ walk.minDelta >= 0) => LostIsExact

(* C8 amended: the same over frame counters that strictly increase.               *)
C8_LostIncreasing == (Walking /\ walk.minDelta >= 1) => LostIsExact

\* 21 strictly increasing counters with 7 missing frames: the >= 30 % band
C8_Witness ==
    /\ walk.pc = "returned" /\ walk.len = 21
    /\ walk.minDelta = 1
    /\ RefLostSoFar = 7
    /\ walk.rate = [lost |-> U32Of(7), len |-> 21]
    /\ getNbTrans(1, walk.rate) = 3

====
